---- MODULE Spec2Model ----
(***************************************************************************)
(* Model of src/lambda_function.py: the traffic-tracker Lambda handler.    *)
(*                                                                         *)
(* lambda_handler is a straight-line pipeline inside one try block:        *)
(*   requests.post / raise_for_status / json  (lines 71-75)                *)
(*   calculate_congestion_level               (line 78)                    *)
(*   check_road_accidents                     (line 81)                    *)
(*   extract_route_details                    (line 84)                    *)
(*   encrypt + s3_client.put_object           (lines 87-108)               *)
(*   send_sns_alert                           (line 111)                   *)
(*   return 200                               (lines 113-116)              *)
(* followed by three except clauses (lines 118-135).  Several invocations  *)
(* of the handler run concurrently; they share the S3 bucket, the SNS      *)
(* topic and the wall clock that names the stored object.                  *)
(*                                                                         *)
(* Python values are represented as follows: a dict is a record, a list is *)
(* a sequence, None is the string PyNone, an exception is the name of its  *)
(* class, a float is an exact rational <<numerator, denominator>> and a    *)
(* formatted string is the tuple of its parts.                             *)
(***************************************************************************)
EXTENDS Integers, Sequences, FiniteSets, TLC

\* ---------------------------------------------------------------- bounds
NumInvocations == 2      \* concurrent invocations of lambda_handler
MaxClock       == 2      \* last instant of the wall clock
TicksPerSecond == 2      \* clock instants inside one wall-clock second
MaxSpeed       == 12     \* largest currentSpeed / freeFlowSpeed drawn
MaxSeconds     == 7325   \* largest travelTimeInSeconds drawn

Invocations == 1..NumInvocations

PyNone == "None"
Unset  == [unset |-> TRUE]

\* -------------------------------------------------- exceptions (classes)
\* Base classes of the exception classes the handler can meet.
\* requests: ConnectionError, HTTPError and JSONDecodeError all derive from
\* RequestException.  botocore: NoCredentialsError and ParamValidationError
\* derive from BotoCoreError; ClientError derives from Exception directly.
\* boto3.exceptions.Boto3Error is a separate root that no botocore class
\* derives from.
Bases(cls) ==
    CASE cls = "ConnectionError"      -> {"ConnectionError", "RequestException", "Exception"}
      [] cls = "HTTPError"            -> {"HTTPError", "RequestException", "Exception"}
      [] cls = "JSONDecodeError"      -> {"JSONDecodeError", "RequestException", "Exception"}
      [] cls = "NoCredentialsError"   -> {"NoCredentialsError", "BotoCoreError", "Exception"}
      [] cls = "ParamValidationError" -> {"ParamValidationError", "BotoCoreError", "Exception"}
      [] cls = "ClientError"          -> {"ClientError", "Exception"}
      [] cls = "Boto3Error"           -> {"Boto3Error", "Exception"}
      [] OTHER                        -> {cls, "Exception"}

isinstance(exc, cls) == cls \in Bases(exc)

\* json.dumps of a str: the text between double quotes.
dumps(text) == <<"\"", text, "\"">>

Returned(code, text) == [kind |-> "return", statusCode |-> code, body |-> dumps(text)]
Escaped(exc)         == [kind |-> "raise", exc |-> exc]

\* The except clauses of lambda_handler, tried in order; an exception no
\* clause matches leaves the handler.
ExceptClauses(exc) ==
    IF isinstance(exc, "RequestException")
    THEN Returned(500, "Error fetching traffic data")
    ELSE IF isinstance(exc, "NoCredentialsError")
    THEN Returned(500, "Error with AWS credentials")
    ELSE IF isinstance(exc, "Boto3Error")
    THEN Returned(500, "Error with AWS services")
    ELSE Escaped(exc)

\* -------------------------------------------------------- pure functions
Ok(v)      == [ok |-> TRUE, value |-> v]
Raise(exc) == [ok |-> FALSE, exc |-> exc]

\* d[k] on a dict: present or KeyError.
HasKey(d, k) == k \in DOMAIN d

\* Comparison of the rational p = <<n, d>>, d > 0, with an integer.
RatLt(p, k) == p[1] < k * p[2]
RatGe(p, k) == p[1] >= k * p[2]

\* f"{x:.2f}": x rounded to hundredths (round-half-even on the value),
\* given as the integer number of hundredths.
Format2f(p) ==
    LET n == p[1] * 100
        q == n \div p[2]
        r == n % p[2]
    IN  IF 2 * r < p[2] THEN q
        ELSE IF 2 * r > p[2] THEN q + 1
        ELSE IF q % 2 = 0 THEN q ELSE q + 1

\* Percentage reduction in speed.
congestion_level(current_speed, free_flow_speed) ==
    IF free_flow_speed > 0
    THEN <<(free_flow_speed - current_speed) * 100, free_flow_speed>>
    ELSE <<0, 1>>

\* Variant: exactly 20% still counted as Low.
category_low_inclusive(level) ==
    IF level[1] <= 20 * level[2] THEN "Low"
    ELSE IF RatGe(level, 20) /\ RatLt(level, 50) THEN "Moderate"
    ELSE "High"

\* Categorisation of the congestion level.
category(level) ==
    IF RatLt(level, 20) THEN "Low"
    ELSE IF RatGe(level, 20) /\ RatLt(level, 50) THEN "Moderate"
    ELSE "High"

calculate_congestion_level(data) ==
    IF ~HasKey(data, "traffic_flow") THEN Raise("KeyError")
    ELSE IF ~HasKey(data.traffic_flow, "flowSegmentData") THEN Raise("KeyError")
    ELSE LET seg == data.traffic_flow.flowSegmentData IN
         IF ~HasKey(seg, "currentSpeed") \/ ~HasKey(seg, "freeFlowSpeed")
         THEN Raise("KeyError")
         ELSE LET level == congestion_level(seg.currentSpeed, seg.freeFlowSpeed)
              IN  Ok([congestion_level    |-> <<Format2f(level), "%">>,
                      congestion_category |-> category(level)])

check_road_accidents(data) ==
    IF ~HasKey(data, "traffic_incidents") THEN Raise("KeyError")
    ELSE IF ~HasKey(data.traffic_incidents, "tm") THEN Raise("KeyError")
    ELSE IF ~HasKey(data.traffic_incidents.tm, "poi") THEN Raise("KeyError")
    ELSE LET incidents == data.traffic_incidents.tm.poi
         IN  Ok([road_accidents |-> IF Len(incidents) > 0
                                    THEN "There are road accidents."
                                    ELSE "There are no road accidents."])

\* str.capitalize on the travel modes the upstream API reports.
capitalize(s) ==
    CASE s = "car"        -> "Car"
      [] s = "CAR"        -> "Car"
      [] s = "pedestrian" -> "Pedestrian"
      [] OTHER            -> s

\* Variant: minutes taken from the whole duration, not from the remainder.
hms_minutes_first(seconds) ==
    LET mn == seconds \div 60
        sc == seconds % 60
        hr == mn \div 60
    IN  <<hr, "hr", mn, "min", sc, "sec">>

\* divmod(seconds, 3600) then divmod(remainder, 60), rendered as
\* "H hr M min S sec".
hms(seconds) ==
    LET hr  == seconds \div 3600
        rem == seconds % 3600
        mn  == rem \div 60
        sc  == rem % 60
    IN  <<hr, "hr", mn, "min", sc, "sec">>

SummaryKeys == {"lengthInMeters", "travelTimeInSeconds", "trafficDelayInSeconds",
                "trafficLengthInMeters", "departureTime", "arrivalTime"}

\* The traffic_length, departure_time and arrival_time entries are built
\* from fields whose presence is required here; their text is not used by
\* any property below and is left out of the returned dict.
extract_route_details(data) ==
    IF ~HasKey(data, "route_details") THEN Raise("KeyError")
    ELSE IF ~HasKey(data.route_details, "routes") THEN Raise("KeyError")
    ELSE IF Len(data.route_details.routes) = 0 THEN Raise("IndexError")
    ELSE LET route == data.route_details.routes[1] IN
         IF ~HasKey(route, "summary") \/ ~HasKey(route, "sections") THEN Raise("KeyError")
         ELSE IF Len(route.sections) = 0 THEN Raise("IndexError")
         ELSE IF ~HasKey(route.sections[1], "travelMode") THEN Raise("KeyError")
         ELSE IF ~(SummaryKeys \subseteq DOMAIN route.summary) THEN Raise("KeyError")
         ELSE LET route_summary == route.summary
              IN  Ok([distance_km   |-> <<route_summary.lengthInMeters, 1000>>,
                      travel_time   |-> hms(route_summary.travelTimeInSeconds),
                      traffic_delay |-> hms(route_summary.trafficDelayInSeconds),
                      travel_mode   |-> capitalize(route.sections[1].travelMode)])

\* ------------------------------------------------------ upstream inputs
FlowSection(c, f) == [flowSegmentData |-> [currentSpeed |-> c, freeFlowSpeed |-> f]]
IncidentSection(poi) == [tm |-> [poi |-> poi]]
RouteSummary(tt, td) ==
    [lengthInMeters |-> 1200, travelTimeInSeconds |-> tt,
     trafficDelayInSeconds |-> td, trafficLengthInMeters |-> 1200,
     departureTime |-> "2024-01-01T08:00:00", arrivalTime |-> "2024-01-01T08:10:00"]
RouteSection(tt, td) ==
    [routes |-> << [summary |-> RouteSummary(tt, td),
                    sections |-> << [travelMode |-> "car"] >>] >>]

FullBody(c, f, poi, tt, td) ==
    [traffic_flow      |-> FlowSection(c, f),
     traffic_incidents |-> IncidentSection(poi),
     route_details     |-> RouteSection(tt, td)]

\* Complete JSON documents of the upstream API.
QuietRoad == FullBody(40, 100, <<>>, 600, 0)
BusyRoad  == FullBody(80, 100, <<"accident">>, 3725, 60)

\* Documents that lack a section, have an empty routes list or lack a
\* summary field.
PartialBodies ==
    { [error |-> "unknown location"],
      [traffic_flow |-> FlowSection(40, 100)],
      [traffic_flow |-> FlowSection(40, 100), traffic_incidents |-> IncidentSection(<<>>),
       route_details |-> [routes |-> <<>>]],
      [traffic_flow |-> FlowSection(40, 100), traffic_incidents |-> IncidentSection(<<>>),
       route_details |-> [routes |-> << [summary |-> [lengthInMeters |-> 1200],
                                        sections |-> << [travelMode |-> "car"] >>] >>]] }

NotJson(s)    == [status_code |-> s, is_json |-> FALSE]
Json(s, body) == [status_code |-> s, is_json |-> TRUE, json |-> body]

\* What requests.post hands back: a status code and a body that either
\* parses as JSON or does not.  300 (Multiple Choices) carries no Location
\* header, so requests returns it as the final response.
Responses ==
    { NotJson(200), NotJson(503), Json(200, QuietRoad), Json(300, BusyRoad),
      Json(503, QuietRoad) }
    \cup { Json(200, b) : b \in PartialBodies }

\* The event carries its three required fields.
Emails == {"x@example.com"}

\* Errors the S3 and SNS clients raise when the service call fails.
AwsErrors == {"NoCredentialsError", "ClientError"}

\* Variant: only 4xx rejected.
raise_for_status_client_errors_only(status_code) ==
    400 <= status_code /\ status_code < 500

\* Response.raise_for_status: HTTPError for a 4xx or 5xx status.
raise_for_status(status_code) == 400 <= status_code /\ status_code < 600

\* Variant: format "%Y%m%d%H%M", seconds dropped.
strftime_without_seconds(instant) == (instant \div TicksPerSecond) \div 60

\* datetime.now().strftime("%Y%m%d%H%M%S"): the wall-clock second of the
\* instant, sub-second part dropped.
strftime(instant) == instant \div TicksPerSecond

ObjectKey(instant) == <<"traffic_data_", strftime(instant), ".json">>

\* Fernet(key).encrypt(json_data): opaque token bound to the key.
Encrypt(key, json_data) == [fernet_key |-> key, token_of |-> json_data]

\* ------------------------------------------------------------------ state
VARIABLES
    pc,                  \* position of each invocation in lambda_handler
    email,               \* event.get('email')
    response,            \* the upstream response
    traffic_data,        \* response.json()
    congestion_data,
    road_accident_data,
    route_details_data,
    result,              \* what the invocation ended with: a return value or an exception
    trace,               \* stages each invocation has executed, in order
    put_time,            \* instant at which the invocation's object was stored
    put_key,             \* Key under which it was stored
    bucket,              \* objects in BUCKET_NAME, by key
    sns_messages,        \* messages published to SNS_TOPIC_ARN
    clock,               \* wall clock, in instants
    arg,                 \* argument of the pure function under test
    ret                  \* its return value

vars == <<pc, email, response, traffic_data, congestion_data, road_accident_data,
          route_details_data, result, trace, put_time, put_key, bucket,
          sns_messages, clock, arg, ret>>

locals == <<email, response, traffic_data, congestion_data, road_accident_data,
            route_details_data>>
shared == <<put_time, put_key, bucket, sns_messages>>
probe  == <<arg, ret>>

HandlerInit ==
    /\ pc = [i \in Invocations |-> "idle"]
    /\ email = [i \in Invocations |-> PyNone]
    /\ response = [i \in Invocations |-> Unset]
    /\ traffic_data = [i \in Invocations |-> Unset]
    /\ congestion_data = [i \in Invocations |-> Unset]
    /\ road_accident_data = [i \in Invocations |-> Unset]
    /\ route_details_data = [i \in Invocations |-> Unset]
    /\ result = [i \in Invocations |-> Unset]
    /\ trace = [i \in Invocations |-> <<>>]
    /\ put_time = [i \in Invocations |-> -1]
    /\ put_key = [i \in Invocations |-> <<>>]
    /\ bucket = <<>>
    /\ sns_messages = {}
    /\ clock = 0

Init == HandlerInit /\ arg = Unset /\ ret = Unset

\* ----------------------------------------------------- handler control flow
\* Variant: put_object moved before extract_route_details.
NextStage_put_before_route(stage) ==
    CASE stage = "fetch"                      -> "calculate_congestion_level"
      [] stage = "calculate_congestion_level" -> "check_road_accidents"
      [] stage = "check_road_accidents"       -> "put_object"
      [] stage = "put_object"                 -> "extract_route_details"
      [] stage = "extract_route_details"      -> "send_sns_alert"
      [] stage = "send_sns_alert"             -> "done"

\* Variant: the send_sns_alert call left out.
NextStage_no_alert(stage) ==
    CASE stage = "fetch"                      -> "calculate_congestion_level"
      [] stage = "calculate_congestion_level" -> "check_road_accidents"
      [] stage = "check_road_accidents"       -> "extract_route_details"
      [] stage = "extract_route_details"      -> "put_object"
      [] stage = "put_object"                 -> "done"
      [] stage = "send_sns_alert"             -> "done"

\* Variant: send_sns_alert moved before put_object.
NextStage_alert_first(stage) ==
    CASE stage = "fetch"                      -> "calculate_congestion_level"
      [] stage = "calculate_congestion_level" -> "check_road_accidents"
      [] stage = "check_road_accidents"       -> "extract_route_details"
      [] stage = "extract_route_details"      -> "send_sns_alert"
      [] stage = "send_sns_alert"             -> "put_object"
      [] stage = "put_object"                 -> "done"

\* Order of the statements in the try block of lambda_handler.
NextStage(stage) ==
    CASE stage = "fetch"                      -> "calculate_congestion_level"
      [] stage = "calculate_congestion_level" -> "check_road_accidents"
      [] stage = "check_road_accidents"       -> "extract_route_details"
      [] stage = "extract_route_details"      -> "put_object"
      [] stage = "put_object"                 -> "send_sns_alert"
      [] stage = "send_sns_alert"             -> "done"

\* Variant: the exception is swallowed and the next statement runs.
AfterRaise_swallowed(stage) == NextStage(stage)

\* An exception raised by a statement of the try block ends the block: no
\* later statement runs.
AfterRaise(stage) == "done"

Entry(stage, exc) == [stage |-> stage, exc |-> exc]

\* The statement at stage completed; the last one is followed by return 200.
Succeed(i, stage) ==
    /\ pc' = [pc EXCEPT ![i] = NextStage(stage)]
    /\ trace' = [trace EXCEPT ![i] = Append(@, Entry(stage, "ok"))]
    /\ result' = [result EXCEPT ![i] =
                     IF NextStage(stage) = "done"
                     THEN Returned(200, "Traffic data processed and alerts sent!")
                     ELSE @]

\* The statement at stage raised exc.
Fail(i, stage, exc) ==
    /\ pc' = [pc EXCEPT ![i] = AfterRaise(stage)]
    /\ trace' = [trace EXCEPT ![i] = Append(@, Entry(stage, exc))]
    /\ result' = [result EXCEPT ![i] = ExceptClauses(exc)]

\* ---------------------------------------------------------------- actions
\* The platform invokes lambda_handler(event, context).
Invoke(i) ==
    /\ pc[i] = "idle"
    /\ \E e \in Emails : email' = [email EXCEPT ![i] = e]
    /\ pc' = [pc EXCEPT ![i] = "fetch"]
    /\ UNCHANGED <<response, traffic_data, congestion_data, road_accident_data,
                   route_details_data, result, trace, shared, clock, probe>>

\* requests.post, raise_for_status, response.json().
Fetch(i) ==
    /\ pc[i] = "fetch"
    /\ \/ /\ Fail(i, "fetch", "ConnectionError")
          /\ UNCHANGED <<response, traffic_data>>
       \/ \E r \in Responses :
             /\ response' = [response EXCEPT ![i] =
                               [status_code |-> r.status_code, is_json |-> r.is_json]]
             /\ IF raise_for_status(r.status_code)
                THEN Fail(i, "fetch", "HTTPError") /\ UNCHANGED traffic_data
                ELSE IF ~r.is_json
                THEN Fail(i, "fetch", "JSONDecodeError") /\ UNCHANGED traffic_data
                ELSE /\ traffic_data' = [traffic_data EXCEPT ![i] = r.json]
                     /\ Succeed(i, "fetch")
    /\ UNCHANGED <<email, congestion_data, road_accident_data, route_details_data,
                   shared, clock, probe>>

CalculateCongestion(i) ==
    /\ pc[i] = "calculate_congestion_level"
    /\ LET r == calculate_congestion_level(traffic_data[i]) IN
         IF r.ok
         THEN /\ congestion_data' = [congestion_data EXCEPT ![i] = r.value]
              /\ Succeed(i, "calculate_congestion_level")
         ELSE /\ Fail(i, "calculate_congestion_level", r.exc)
              /\ UNCHANGED congestion_data
    /\ UNCHANGED <<email, response, traffic_data, road_accident_data,
                   route_details_data, shared, clock, probe>>

CheckRoadAccidents(i) ==
    /\ pc[i] = "check_road_accidents"
    /\ LET r == check_road_accidents(traffic_data[i]) IN
         IF r.ok
         THEN /\ road_accident_data' = [road_accident_data EXCEPT ![i] = r.value]
              /\ Succeed(i, "check_road_accidents")
         ELSE /\ Fail(i, "check_road_accidents", r.exc)
              /\ UNCHANGED road_accident_data
    /\ UNCHANGED <<email, response, traffic_data, congestion_data,
                   route_details_data, shared, clock, probe>>

ExtractRouteDetails(i) ==
    /\ pc[i] = "extract_route_details"
    /\ LET r == extract_route_details(traffic_data[i]) IN
         IF r.ok
         THEN /\ route_details_data' = [route_details_data EXCEPT ![i] = r.value]
              /\ Succeed(i, "extract_route_details")
         ELSE /\ Fail(i, "extract_route_details", r.exc)
              /\ UNCHANGED route_details_data
    /\ UNCHANGED <<email, response, traffic_data, congestion_data,
                   road_accident_data, shared, clock, probe>>

\* output_json, Fernet.generate_key, encrypt, s3_client.put_object.  The
\* key is generated afresh: no two invocations share one.
PutObject(i) ==
    /\ pc[i] = "put_object"
    /\ LET output_json == [email                 |-> email[i],
                           route_details         |-> route_details_data[i],
                           congestion_details    |-> congestion_data[i],
                           road_accident_details |-> road_accident_data[i]]
           encrypted_data == Encrypt(i, output_json)
           Key == ObjectKey(clock)
       IN  \/ /\ bucket' = (Key :> encrypted_data) @@ bucket
              /\ put_time' = [put_time EXCEPT ![i] = clock]
              /\ put_key' = [put_key EXCEPT ![i] = Key]
              /\ Succeed(i, "put_object")
           \/ /\ \E exc \in AwsErrors : Fail(i, "put_object", exc)
              /\ UNCHANGED <<bucket, put_time, put_key>>
    /\ UNCHANGED <<locals, sns_messages, clock, probe>>

\* send_sns_alert: the message, then sns_client.publish.
SendSnsAlert(i) ==
    /\ pc[i] = "send_sns_alert"
    /\ LET message == [congestion     |-> congestion_data[i],
                       road_accidents |-> road_accident_data[i],
                       route          |-> route_details_data[i]]
       IN  \/ /\ sns_messages' = sns_messages \cup
                     {[publisher |-> i, Message |-> message,
                       Subject |-> "Traffic Alert", email |-> email[i]]}
              /\ Succeed(i, "send_sns_alert")
           \/ /\ \E exc \in AwsErrors : Fail(i, "send_sns_alert", exc)
              /\ UNCHANGED sns_messages
    /\ UNCHANGED <<locals, put_time, put_key, bucket, clock, probe>>

\* The wall clock advances.
Tick ==
    /\ clock < MaxClock
    /\ clock' = clock + 1
    /\ UNCHANGED <<pc, locals, result, trace, shared, probe>>

Next ==
    \/ \E i \in Invocations : Invoke(i)
    \/ \E i \in Invocations : Fetch(i)
    \/ \E i \in Invocations : CalculateCongestion(i)
    \/ \E i \in Invocations : CheckRoadAccidents(i)
    \/ \E i \in Invocations : ExtractRouteDetails(i)
    \/ \E i \in Invocations : PutObject(i)
    \/ \E i \in Invocations : SendSnsAlert(i)
    \/ Tick

Spec == Init /\ [][Next]_vars

\* ------------------------------------ specifications of the pure functions
DelaySamples == {0, 600, 3725}

InitCongestion ==
    /\ HandlerInit
    /\ arg \in { [currentSpeed |-> c, freeFlowSpeed |-> f] :
                    c \in 0..MaxSpeed, f \in 0..MaxSpeed }
    /\ ret = Unset

ApplyCongestion ==
    /\ ret = Unset
    /\ ret' = calculate_congestion_level(
                  [traffic_flow |-> FlowSection(arg.currentSpeed, arg.freeFlowSpeed)])
    /\ UNCHANGED <<pc, locals, result, trace, shared, clock, arg>>

NextCongestion == ApplyCongestion

SpecCongestion == InitCongestion /\ [][NextCongestion]_vars

InitRoute ==
    /\ HandlerInit
    /\ arg \in { [travelTimeInSeconds |-> t, trafficDelayInSeconds |-> d] :
                    t \in 0..MaxSeconds, d \in DelaySamples }
    /\ ret = Unset

ApplyRoute ==
    /\ ret = Unset
    /\ ret' = extract_route_details(
                  [route_details |-> RouteSection(arg.travelTimeInSeconds,
                                                  arg.trafficDelayInSeconds)])
    /\ UNCHANGED <<pc, locals, result, trace, shared, clock, arg>>

NextRoute == ApplyRoute

SpecRoute == InitRoute /\ [][NextRoute]_vars

\* ------------------------------------------------------------- properties
Derivations == {"calculate_congestion_level", "check_road_accidents",
                "extract_route_details"}
Effects     == {"put_object", "send_sns_alert"}

Steps(i) == DOMAIN trace[i]
Count(i, stage) == Cardinality({k \in Steps(i) : trace[i][k].stage = stage})
CountOk(i, stage) == Cardinality({k \in Steps(i) : trace[i][k] = Entry(stage, "ok")})
Completed(i, stage) == \E k \in Steps(i) : trace[i][k] = Entry(stage, "ok")
Failed(i, stage) == \E k \in Steps(i) : trace[i][k].stage = stage /\ trace[i][k].exc # "ok"
Published(i) == {m \in sns_messages : m.publisher = i}
Stored(i) == put_key[i] # <<>>
Success == Returned(200, "Traffic data processed and alerts sent!")
FetchError == Returned(500, "Error fetching traffic data")

\* C1: put_object and send_sns_alert run only after all three derivations
\* completed; an invocation in which a derivation failed makes no storage
\* write and no publish.
C1_EffectsAfterDerivations ==
    \A i \in Invocations :
        /\ \A k \in Steps(i) :
              trace[i][k].stage \in Effects
              => \A d \in Derivations :
                    \E j \in Steps(i) : j < k /\ trace[i][j] = Entry(d, "ok")
        /\ (\E d \in Derivations : Failed(i, d))
              => /\ Count(i, "put_object") = 0
                 /\ Count(i, "send_sns_alert") = 0
                 /\ ~Stored(i)
                 /\ Published(i) = {}

C1_Witness ==
    \E i \in Invocations :
        /\ pc[i] = "done"
        /\ trace[i][Len(trace[i])] = Entry("extract_route_details", "IndexError")
        /\ Completed(i, "check_road_accidents")

\* The fetch failures the claim lists: a network error, a status outside
\* 2xx, a body that is not JSON.
UpstreamFailure(i) ==
    \/ Failed(i, "fetch") /\ response[i] = Unset
    \/ /\ response[i] # Unset
       /\ \/ ~(200 <= response[i].status_code /\ response[i].status_code < 300)
          \/ ~response[i].is_json

\* The same with the status narrowed to 4xx and 5xx.
UpstreamError(i) ==
    \/ Failed(i, "fetch") /\ response[i] = Unset
    \/ /\ response[i] # Unset
       /\ \/ (400 <= response[i].status_code /\ response[i].status_code < 600)
          \/ ~response[i].is_json

NoEffects(i) ==
    /\ Count(i, "put_object") = 0
    /\ Count(i, "send_sns_alert") = 0
    /\ ~Stored(i)
    /\ Published(i) = {}

\* C2 as stated: after a network error, any non-2xx status or a non-JSON
\* body the handler returns 500 "Error fetching traffic data" and neither
\* writes nor publishes.
C2_AsStated ==
    \A i \in Invocations :
        /\ UpstreamFailure(i) => NoEffects(i)
        /\ (pc[i] = "done" /\ UpstreamFailure(i)) => result[i] = FetchError

\* C2 amended: after a network error, a 4xx or 5xx status or a non-JSON
\* body the handler returns 500 "Error fetching traffic data" and neither
\* writes nor publishes.
C2_FetchFailure ==
    \A i \in Invocations :
        /\ UpstreamError(i) => NoEffects(i)
        /\ (pc[i] = "done" /\ UpstreamError(i)) => result[i] = FetchError

C2_Witness ==
    \E i \in Invocations :
        /\ pc[i] = "done"
        /\ response[i] = [status_code |-> 503, is_json |-> TRUE]
        /\ result[i] = FetchError

\* C3: every invocation ends by returning {statusCode, body} with
\* statusCode 200 or 500; no failure leaves the handler as an exception.
C3_AlwaysStructuredResponse ==
    \A i \in Invocations :
        pc[i] = "done"
        => result[i].kind = "return" /\ result[i].statusCode \in {200, 500}

\* C4: a put_object or publish failure other than missing credentials ends
\* in 500 "Error with AWS services".
C4_ServiceErrorResponse ==
    \A i \in Invocations :
        (\E k \in Steps(i) :
            /\ trace[i][k].stage \in Effects
            /\ trace[i][k].exc \notin {"ok", "NoCredentialsError"})
        => result[i] = Returned(500, "Error with AWS services")

\* C5: the handler returns 200 "Traffic data processed and alerts sent!"
\* exactly when the fetch and the three derivations succeeded, one storage
\* write succeeded and one publish succeeded after it; then exactly one
\* publish call was made and one message is on the topic.
C5_SuccessIffAllStagesSucceeded ==
    \A i \in Invocations :
        /\ result[i] = Success
           <=> /\ Completed(i, "fetch")
               /\ \A d \in Derivations : Completed(i, d)
               /\ CountOk(i, "put_object") = 1
               /\ CountOk(i, "send_sns_alert") = 1
               /\ \E j, k \in Steps(i) :
                     /\ j < k
                     /\ trace[i][j] = Entry("put_object", "ok")
                     /\ trace[i][k] = Entry("send_sns_alert", "ok")
        /\ result[i] = Success
           => /\ pc[i] = "done"
              /\ Count(i, "send_sns_alert") = 1
              /\ Cardinality(Published(i)) = 1
              /\ Stored(i)

C5_Witness ==
    \E i \in Invocations : result[i] = Success /\ pc[i] = "done"

\* C6: fetch, put_object and publish are each attempted at most once per
\* invocation, and a failed stage is the last stage the invocation runs.
C6_NoRetryNoContinuation ==
    \A i \in Invocations :
        /\ Count(i, "fetch") <= 1
        /\ Count(i, "put_object") <= 1
        /\ Count(i, "send_sns_alert") <= 1
        /\ \A k \in Steps(i) :
              trace[i][k].exc # "ok" => k = Len(trace[i]) /\ pc[i] = "done"

C6_Witness ==
    \E i \in Invocations :
        /\ pc[i] = "done"
        /\ Failed(i, "put_object")
        /\ Count(i, "send_sns_alert") = 0

\* C7: for speeds c and f the category is Low when the reduction
\* (f - c) / f * 100 is below 20 or f = 0, Moderate from 20 up to but not
\* including 50, High from 50 on; the reported level is that percentage
\* (0 when f = 0) to two decimals.
C7_CongestionThresholds ==
    ret # Unset
    => LET c == arg.currentSpeed
           f == arg.freeFlowSpeed
           h == ret.value.congestion_level[1]
           d == h * f - (f - c) * 10000
       IN  /\ ret.ok
           /\ ret.value.congestion_category =
                 (IF f = 0 \/ 5 * c > 4 * f THEN "Low"
                  ELSE IF 2 * c > f THEN "Moderate"
                  ELSE "High")
           /\ f = 0 => h = 0
           /\ f > 0 => 2 * d <= f /\ 2 * (0 - d) <= f

C7_Witness ==
    /\ ret # Unset
    /\ arg = [currentSpeed |-> 4, freeFlowSpeed |-> 5]
    /\ ret.value.congestion_category = "Moderate"
    /\ ret.value.congestion_level = <<2000, "%">>

SecondOf(i) == put_time[i] \div TicksPerSecond
Overwritten(i) == Stored(i) /\ bucket[put_key[i]].fernet_key # i

\* C8 as stated: any two invocations store under distinct keys and no
\* stored object is overwritten by another invocation.
C8_AsStated ==
    \A i, j \in Invocations :
        /\ (i # j /\ Stored(i) /\ Stored(j)) => put_key[i] # put_key[j]
        /\ ~Overwritten(i)

\* C8 amended: two invocations that store in different wall-clock seconds
\* use distinct keys, and an object is overwritten only by an invocation
\* that stores in the same second.
C8_DistinctKeysAcrossSeconds ==
    \A i \in Invocations :
        /\ \A j \in Invocations :
              (i # j /\ Stored(i) /\ Stored(j) /\ SecondOf(i) # SecondOf(j))
              => put_key[i] # put_key[j]
        /\ Stored(i) => put_key[i] \in DOMAIN bucket
        /\ Overwritten(i)
              => \E j \in Invocations :
                    /\ j # i
                    /\ Stored(j)
                    /\ SecondOf(j) = SecondOf(i)
                    /\ bucket[put_key[i]].fernet_key = j

C8_Witness ==
    \E i, j \in Invocations :
        /\ i # j
        /\ Stored(i) /\ Stored(j)
        /\ SecondOf(i) # SecondOf(j)
        /\ bucket[put_key[i]].fernet_key = i
        /\ bucket[put_key[j]].fernet_key = j

\* C9: t seconds are rendered "H hr M min S sec" with
\* H * 3600 + M * 60 + S = t, 0 <= M < 60 and 0 <= S < 60, for the travel
\* time and for the traffic delay.
C9_HoursMinutesSeconds ==
    ret # Unset
    => /\ ret.ok
       /\ \A field \in {<<ret.value.travel_time, arg.travelTimeInSeconds>>,
                        <<ret.value.traffic_delay, arg.trafficDelayInSeconds>>} :
             LET text == field[1]
                 t    == field[2]
             IN  /\ <<text[2], text[4], text[6]>> = <<"hr", "min", "sec">>
                 /\ text[1] * 3600 + text[3] * 60 + text[5] = t
                 /\ text[1] = t \div 3600
                 /\ 0 <= text[3] /\ text[3] < 60
                 /\ 0 <= text[5] /\ text[5] < 60

C9_Witness ==
    /\ ret # Unset
    /\ arg = [travelTimeInSeconds |-> 3725, trafficDelayInSeconds |-> 600]
    /\ ret.value.travel_time = <<1, "hr", 2, "min", 5, "sec">>
    /\ ret.value.traffic_delay = <<0, "hr", 10, "min", 0, "sec">>

\* C10: a published notification implies that the same invocation stored
\* its object before; a stored object is never removed, so an invocation
\* whose publish fails ends without a 200, without a notification and with
\* its object in the bucket.
C10_PublishedImpliesPersisted ==
    \A i \in Invocations :
        /\ (Published(i) # {} \/ Count(i, "send_sns_alert") > 0)
           => /\ Stored(i)
              /\ \E j, k \in Steps(i) :
                    /\ j < k
                    /\ trace[i][j] = Entry("put_object", "ok")
                    /\ trace[i][k].stage = "send_sns_alert"
        /\ Completed(i, "put_object") => Stored(i) /\ put_key[i] \in DOMAIN bucket

C10_Witness ==
    \E i \in Invocations :
        /\ pc[i] = "done"
        /\ Failed(i, "send_sns_alert")
        /\ result[i] # Success
        /\ Published(i) = {}
        /\ Stored(i)
        /\ bucket[put_key[i]].fernet_key = i

====
